---- MODULE Spec2Model ----
(***************************************************************************)
(* A model of the bitbank-dca decision pipeline: budget allocation, dip    *)
(* reallocation, guard evaluation, quantity rounding and the per-pair      *)
(* plan/execute loop of one scheduled run (app/main.py:run).               *)
(*                                                                         *)
(* Numbers.  JPY amounts are Python ints and are modelled as integers.     *)
(* Python floats are modelled as exact rationals [n, d] (d > 0).  The one  *)
(* place where binary rounding changes an integer result, the truncation   *)
(* int(x * (a / b)), is modelled by IntMulDiv with the table FloatShort.   *)
(* Quantities are rationals, in coins.                                     *)
(* Python dicts are insertion ordered; a dict over the pairs is modelled   *)
(* as a sequence indexed by the pair's position in the key order.          *)
(***************************************************************************)
EXTENDS Integers, Sequences, FiniteSets, TLC

VARIABLES
    fpc,      \* position of a single function call: "call", "ret" ("idle" in a run)
    arg,      \* the arguments of the function under call
    ret,      \* its return value
    \* one run of app/main.py:run
    pc,               \* position in run(); "idle" outside a run
    dry_run,          \* the argument of run()
    dca_live,         \* the environment variable DCA_LIVE, lower-cased
    pair_table,       \* the pairs registered in DEFAULT_PAIR_SPEC_REPO
    cfg,              \* Optional: the loaded configuration
    base_allocs,      \* JPY per pair before the dip adjustment
    quotes,           \* the snapshot's quote per pair
    vol5m_map,        \* the snapshot's 5-minute volatility per pair
    chg24h_map,       \* the snapshot's 24h change per pair, in percent
    dip_flag_map,     \* per pair: in a dip (dip_flags in run)
    final_allocs,     \* JPY per pair after the dip adjustment (allocs in run)
    free_jpy_before,  \* Optional: the free balance read before the loop
    idx,              \* 1-based position of the loop under way in PAIRS
    plans,            \* the plans built so far, one per pair
    reports,          \* the reports appended so far
    execs,            \* history: the effects of each execute_plan_for_pair call
    notified,         \* history: the messages handed to notifier.notify
    raised,           \* Optional: the call that raised an exception
    \* one BitbankPrivateClient and the threads calling its _next_nonce
    _nonce_lock,      \* the thread holding BitbankPrivateClient._nonce_lock, 0 when free
    _last_nonce,      \* self._last_nonce (the class attribute, 0, until first set)
    npc,              \* per thread: its position in _next_nonce
    now,              \* per thread: the local variable now
    nonces            \* history: the nonces returned, in the order of return

fvars == <<fpc, arg, ret>>
rvars == <<pc, dry_run, dca_live, pair_table, cfg, base_allocs, quotes, vol5m_map, chg24h_map,
           dip_flag_map, final_allocs, free_jpy_before, idx, plans, reports, execs,
           notified, raised>>
nvars == <<_nonce_lock, _last_nonce, npc, now, nonces>>

vars == <<fvars, rvars, nvars>>

-----------------------------------------------------------------------------
(* Bounds of the explored inputs. *)
MaxTotal == 22
WeightLevels == {0, 1, 3, 7, 15}
WeightSeqs == UNION {[1..n -> WeightLevels] : n \in 0..3}
MaxAlloc == 2
CapLevels == {0, 4, 7, 11, 30}
MaxQtyTicks == 60
MaxCloses == 3
NumThreads == 2
MaxClock == 3
MaxCalls == 4

-----------------------------------------------------------------------------
(* Generic helpers. *)
RECURSIVE SumTo(_, _)
SumTo(s, n) == IF n <= 0 THEN 0 ELSE s[n] + SumTo(s, n - 1)

SumSeq(s) == SumTo(s, Len(s))

Min2(a, b) == IF a <= b THEN a ELSE b

-----------------------------------------------------------------------------
(* Floating point.                                                         *)
(* FloatShort lists every operand triple <<x, a, b>> with 0 <= x <= 32,    *)
(* 0 <= a <= 32, 1 <= b <= 64 for which IEEE-754 double evaluation of      *)
(* x * (a / b) lands just below the exact integer x*a/b, so that int()     *)
(* truncates to one less than the exact quotient.  For every other triple  *)
(* of that range int(x * (a / b)) equals the exact floor.                  *)
FloatShort ==
    { <<11,15,11>>, <<11,30,11>>, <<11,30,22>>, <<13,15,13>>, <<13,30,13>>,
      <<13,30,26>>, <<21,17,7>>, <<22,15,11>>, <<22,30,11>>, <<22,15,22>>,
      <<22,30,22>>, <<22,30,44>>, <<23,13,23>>, <<23,26,23>>, <<23,26,46>>,
      <<25,23,5>>, <<25,29,25>>, <<26,15,13>>, <<26,30,13>>, <<26,15,26>>,
      <<26,30,26>>, <<26,30,52>>, <<27,13,3>>, <<27,26,3>>, <<27,26,6>>,
      <<29,31,29>> }

(* int(x * (a / b)) for ints x >= 0, a >= 0, b > 0 held in floats. *)
IntMulDiv(x, a, b) ==
    IF <<x, a, b>> \in FloatShort THEN ((x * a) \div b) - 1 ELSE (x * a) \div b

-----------------------------------------------------------------------------
(* allocation.py: allocate_amounts(weights, total_jpy).                    *)
(* weights is the sequence of the dict's values in key order.              *)
allocate_amounts_noremainder(weights, total_jpy) ==
    LET n == Len(weights)
        s == SumSeq(weights)
    IN  [i \in 1..n |->
            IF s <= 0 THEN IntMulDiv(total_jpy, 1, n)
                      ELSE IntMulDiv(total_jpy, weights[i], s)]

allocate_amounts(weights, total_jpy) ==
    LET n == Len(weights)
        s == SumSeq(weights)
        \* norm[p] = 1.0/len(pairs) if s <= 0 else weights[p]/s; j = int(total_jpy*norm[p])
        j == [i \in 1..n |->
                IF s <= 0 THEN IntMulDiv(total_jpy, 1, n)
                          ELSE IntMulDiv(total_jpy, weights[i], s)]
    IN  IF n = 0 THEN << >>
        ELSE [i \in 1..n |->
                IF i < n THEN j[i] ELSE total_jpy - SumTo(j, n - 1)]

-----------------------------------------------------------------------------
(* Rationals [n, d] with d > 0 stand for Python floats. *)
Rat(n, d) == [n |-> n, d |-> d]

RatLE(x, y) == x.n * y.d <= y.n * x.d

RatGT(x, y) == x.n * y.d > y.n * x.d

(* The multipliers tried: 0.5, 1.0, 1.1, 1.5, 2.0. *)
Multipliers == {Rat(1, 2), Rat(1, 1), Rat(11, 10), Rat(3, 2), Rat(2, 1)}

-----------------------------------------------------------------------------
(* allocation.py: apply_dip_multiplier.                                    *)
(* dip_flags and allocs are dicts over the same pairs in the same order.   *)

(* dips = [p for p, f in dip_flags.items() if f and p in allocs] *)
RECURSIVE DipsUpTo(_, _)
DipsUpTo(dip_flags, n) ==
    IF n <= 0 THEN << >>
    ELSE IF dip_flags[n] THEN Append(DipsUpTo(dip_flags, n - 1), n)
         ELSE DipsUpTo(dip_flags, n - 1)

Dips(dip_flags) == DipsUpTo(dip_flags, Len(dip_flags))

(* target_total = min(int(base_total * float(multiplier)), int(cap_total)) *)
DipTargetTotal_nocap(base_total, multiplier, cap_total) ==
    IntMulDiv(base_total, multiplier.n, multiplier.d)

(* The mutant truncates the multiplier before it multiplies. *)
DipTargetTotal_truncmult(base_total, multiplier, cap_total) ==
    Min2(base_total * (multiplier.n \div multiplier.d), cap_total)

DipTargetTotal(base_total, multiplier, cap_total) ==
    Min2(IntMulDiv(base_total, multiplier.n, multiplier.d), cap_total)

(* The mutant floors the last dip pair's share too: the remainder is lost. *)
apply_dip_multiplier_floorlast(dip_flags, allocs, base_total, multiplier, cap_total) ==
    LET target_total == DipTargetTotal(base_total, multiplier, cap_total)
        extra == target_total - base_total
        dips == Dips(dip_flags)
        nd == Len(dips)
        dip_allocs == [k \in 1..nd |-> allocs[dips[k]]]
        dip_base_sum == SumSeq(dip_allocs)
        \* even split: q, r = divmod(extra, len(dips)); only 1 is added when r > 0
        q == extra \div nd
        r == extra % nd
        even == [k \in 1..nd |-> q + (IF k = nd /\ r > 0 THEN 1 ELSE 0)]
        \* proportional split: floor for all but the last dip pair
        add == [k \in 1..nd |-> IntMulDiv(extra, dip_allocs[k], dip_base_sum)]
        prop == [k \in 1..nd |->
                    add[k]]
        inc == IF dip_base_sum <= 0 THEN even ELSE prop
        pos(i) == CHOOSE k \in 1..nd : dips[k] = i
    IN  IF base_total <= 0 \/ RatLE(multiplier, Rat(1, 1)) THEN allocs
        ELSE IF extra <= 0 THEN allocs
        ELSE IF nd = 0 THEN allocs
        ELSE [i \in 1..Len(allocs) |->
                IF dip_flags[i] THEN allocs[i] + inc[pos(i)] ELSE allocs[i]]

(* The mutant does not return early when the computed extra is <= 0. *)
apply_dip_multiplier_noextracheck(dip_flags, allocs, base_total, multiplier, cap_total) ==
    LET target_total == DipTargetTotal(base_total, multiplier, cap_total)
        extra == target_total - base_total
        dips == Dips(dip_flags)
        nd == Len(dips)
        dip_allocs == [k \in 1..nd |-> allocs[dips[k]]]
        dip_base_sum == SumSeq(dip_allocs)
        \* even split: q, r = divmod(extra, len(dips)); only 1 is added when r > 0
        q == extra \div nd
        r == extra % nd
        even == [k \in 1..nd |-> q + (IF k = nd /\ r > 0 THEN 1 ELSE 0)]
        \* proportional split: floor for all but the last dip pair
        add == [k \in 1..nd |-> IntMulDiv(extra, dip_allocs[k], dip_base_sum)]
        prop == [k \in 1..nd |->
                    IF k < nd THEN add[k] ELSE extra - SumTo(add, nd - 1)]
        inc == IF dip_base_sum <= 0 THEN even ELSE prop
        pos(i) == CHOOSE k \in 1..nd : dips[k] = i
    IN  IF base_total <= 0 \/ RatLE(multiplier, Rat(1, 1)) THEN allocs
        ELSE IF nd = 0 THEN allocs
        ELSE [i \in 1..Len(allocs) |->
                IF dip_flags[i] THEN allocs[i] + inc[pos(i)] ELSE allocs[i]]

(* The mutant also hands every pair that is not in a dip an even share. *)
apply_dip_multiplier_spread(dip_flags, allocs, base_total, multiplier, cap_total) ==
    LET target_total == DipTargetTotal(base_total, multiplier, cap_total)
        extra == target_total - base_total
        dips == Dips(dip_flags)
        nd == Len(dips)
        dip_allocs == [k \in 1..nd |-> allocs[dips[k]]]
        dip_base_sum == SumSeq(dip_allocs)
        \* even split: q, r = divmod(extra, len(dips)); only 1 is added when r > 0
        q == extra \div nd
        r == extra % nd
        even == [k \in 1..nd |-> q + (IF k = nd /\ r > 0 THEN 1 ELSE 0)]
        \* proportional split: floor for all but the last dip pair
        add == [k \in 1..nd |-> IntMulDiv(extra, dip_allocs[k], dip_base_sum)]
        prop == [k \in 1..nd |->
                    IF k < nd THEN add[k] ELSE extra - SumTo(add, nd - 1)]
        inc == IF dip_base_sum <= 0 THEN even ELSE prop
        pos(i) == CHOOSE k \in 1..nd : dips[k] = i
    IN  IF base_total <= 0 \/ RatLE(multiplier, Rat(1, 1)) THEN allocs
        ELSE IF extra <= 0 THEN allocs
        ELSE IF nd = 0 THEN allocs
        ELSE [i \in 1..Len(allocs) |->
                IF dip_flags[i] THEN allocs[i] + inc[pos(i)]
                ELSE allocs[i] + (extra \div Len(allocs))]

apply_dip_multiplier(dip_flags, allocs, base_total, multiplier, cap_total) ==
    LET target_total == DipTargetTotal(base_total, multiplier, cap_total)
        extra == target_total - base_total
        dips == Dips(dip_flags)
        nd == Len(dips)
        dip_allocs == [k \in 1..nd |-> allocs[dips[k]]]
        dip_base_sum == SumSeq(dip_allocs)
        \* even split: q, r = divmod(extra, len(dips)); only 1 is added when r > 0
        q == extra \div nd
        r == extra % nd
        even == [k \in 1..nd |-> q + (IF k = nd /\ r > 0 THEN 1 ELSE 0)]
        \* proportional split: floor for all but the last dip pair
        add == [k \in 1..nd |-> IntMulDiv(extra, dip_allocs[k], dip_base_sum)]
        prop == [k \in 1..nd |->
                    IF k < nd THEN add[k] ELSE extra - SumTo(add, nd - 1)]
        inc == IF dip_base_sum <= 0 THEN even ELSE prop
        pos(i) == CHOOSE k \in 1..nd : dips[k] = i
    IN  IF base_total <= 0 \/ RatLE(multiplier, Rat(1, 1)) THEN allocs
        ELSE IF extra <= 0 THEN allocs
        ELSE IF nd = 0 THEN allocs
        ELSE [i \in 1..Len(allocs) |->
                IF dip_flags[i] THEN allocs[i] + inc[pos(i)] ELSE allocs[i]]

-----------------------------------------------------------------------------
(* guards.py.  An Optional value is a sequence: << >> is None, <<v>> is v. *)
(* A dict of details is the sequence of its <<key, value>> items.          *)
None == << >>

Some(v) == <<v>>

(* models.py: Quote (pair and ts_ms play no part in any decision). *)
Quote(price, best_bid, best_ask, spread_pct) ==
    [price |-> price, best_bid |-> best_bid, best_ask |-> best_ask,
     spread_pct |-> spread_pct]

(* guards.py: GuardParams *)
GuardParams(max_spread_pct, max_vol5m_pct, max_slip_pct, kill_switch) ==
    [max_spread_pct |-> max_spread_pct, max_vol5m_pct |-> max_vol5m_pct,
     max_slip_pct |-> max_slip_pct, kill_switch |-> kill_switch]

GuardResult(ok, reason, meta) == [ok |-> ok, reason |-> reason, meta |-> meta]

(* The mutant rejects with SLIP when a slippage limit is configured. *)
evaluate_pair_guard_slipreject(quote, vol5m_abs, params) ==
    IF params.kill_switch THEN GuardResult(FALSE, "KILL", << >>)
    ELSE IF quote.price <= 0 \/ (quote.best_bid <= 0 /\ quote.best_ask <= 0)
    THEN GuardResult(FALSE, "DATA",
            << <<"price", quote.price>>, <<"best_bid", quote.best_bid>>,
               <<"best_ask", quote.best_ask>> >>)
    ELSE IF quote.spread_pct # None /\ RatGT(quote.spread_pct[1], params.max_spread_pct)
    THEN GuardResult(FALSE, "SPREAD",
            << <<"spread", quote.spread_pct[1]>>, <<"limit", params.max_spread_pct>> >>)
    ELSE IF RatGT(vol5m_abs, params.max_vol5m_pct)
    THEN GuardResult(FALSE, "VOL",
            << <<"vol5m_abs", vol5m_abs>>, <<"limit", params.max_vol5m_pct>> >>)
    ELSE IF params.max_slip_pct # None
    THEN GuardResult(FALSE, "SLIP", << <<"limit", params.max_slip_pct[1]>> >>)
    ELSE GuardResult(TRUE, "NONE", << >>)

(* The mutant checks volatility before spread. *)
evaluate_pair_guard_volfirst(quote, vol5m_abs, params) ==
    IF params.kill_switch THEN GuardResult(FALSE, "KILL", << >>)
    ELSE IF quote.price <= 0 \/ (quote.best_bid <= 0 /\ quote.best_ask <= 0)
    THEN GuardResult(FALSE, "DATA",
            << <<"price", quote.price>>, <<"best_bid", quote.best_bid>>,
               <<"best_ask", quote.best_ask>> >>)
    ELSE IF RatGT(vol5m_abs, params.max_vol5m_pct)
    THEN GuardResult(FALSE, "VOL",
            << <<"vol5m_abs", vol5m_abs>>, <<"limit", params.max_vol5m_pct>> >>)
    ELSE IF quote.spread_pct # None /\ RatGT(quote.spread_pct[1], params.max_spread_pct)
    THEN GuardResult(FALSE, "SPREAD",
            << <<"spread", quote.spread_pct[1]>>, <<"limit", params.max_spread_pct>> >>)
    ELSE GuardResult(TRUE, "NONE", << >>)

evaluate_pair_guard(quote, vol5m_abs, params) ==
    \* 1) KillSwitch
    IF params.kill_switch THEN GuardResult(FALSE, "KILL", << >>)
    \* 2) DATA
    ELSE IF quote.price <= 0 \/ (quote.best_bid <= 0 /\ quote.best_ask <= 0)
    THEN GuardResult(FALSE, "DATA",
            << <<"price", quote.price>>, <<"best_bid", quote.best_bid>>,
               <<"best_ask", quote.best_ask>> >>)
    \* 3) SPREAD
    ELSE IF quote.spread_pct # None /\ RatGT(quote.spread_pct[1], params.max_spread_pct)
    THEN GuardResult(FALSE, "SPREAD",
            << <<"spread", quote.spread_pct[1]>>, <<"limit", params.max_spread_pct>> >>)
    \* 4) VOL5M
    ELSE IF RatGT(vol5m_abs, params.max_vol5m_pct)
    THEN GuardResult(FALSE, "VOL",
            << <<"vol5m_abs", vol5m_abs>>, <<"limit", params.max_vol5m_pct>> >>)
    \* 5) SLIP: "if params.max_slip_pct is not None: pass"
    ELSE IF params.max_slip_pct # None THEN GuardResult(TRUE, "NONE", << >>)
    ELSE GuardResult(TRUE, "NONE", << >>)

(* guards.py: make_dip_flags; flags[pair] = (chg <= -abs(dip_threshold_abs)) *)
make_dip_flags(change24h_map, dip_threshold_abs) ==
    LET a == IF dip_threshold_abs.n < 0 THEN -dip_threshold_abs.n ELSE dip_threshold_abs.n
    IN  [i \in 1..Len(change24h_map) |->
            RatLE(change24h_map[i], Rat(-a, dip_threshold_abs.d))]

-----------------------------------------------------------------------------
(* Rational arithmetic for the float computations below. *)
RatLT(x, y) == x.n * y.d < y.n * x.d

Abs(x) == IF x < 0 THEN -x ELSE x

RECURSIVE GCD(_, _)
GCD(a, b) == IF b = 0 THEN a ELSE GCD(b, a % b)

(* The value of a rational in lowest terms: equal floats are equal records. *)
RatNorm(x) ==
    LET g == GCD(Abs(x.n), x.d)
    IN  IF g = 0 THEN Rat(0, 1) ELSE Rat(x.n \div g, x.d \div g)

-----------------------------------------------------------------------------
(* pricing.py.  A port call answers None when it raises, else Some(json).  *)
(* A depth answer is [bids, asks], each the sequence of the book's prices, *)
(* best first.  A ticker answer is [buy, sell, last, open], each field an  *)
(* Optional number (None when the key is absent).  A candlestick answer is *)
(* the sequence of the day's closing prices, oldest first.                 *)
Depth(bids, asks) == [bids |-> bids, asks |-> asks]

Ticker(buy, sell, last, open) == [buy |-> buy, sell |-> sell, last |-> last, open |-> open]

(* _spread_pct testing the bid only. *)
_spread_pct_bidonly(bid, ask) ==
    IF bid <= 0 THEN Rat(0, 1)
    ELSE RatNorm(Rat(2 * (ask - bid), bid + ask))

_spread_pct(bid, ask) ==
    IF bid <= 0 \/ ask <= 0 THEN Rat(0, 1)
    ELSE RatNorm(Rat(2 * (ask - bid), bid + ask))

_parse_depth_best(data) ==
    [best_bid |-> IF data.bids # << >> THEN data.bids[1] ELSE 0,
     best_ask |-> IF data.asks # << >> THEN data.asks[1] ELSE 0]

_parse_ticker_best(data) ==
    LET last == IF data.last # None THEN data.last[1] ELSE 0
    IN  [best_bid |-> IF data.buy # None THEN data.buy[1] ELSE last,
         best_ask |-> IF data.sell # None THEN data.sell[1] ELSE last,
         last |-> last]

(* The mutant keeps the two oldest closes. *)
_latest_two_closes_from_candles_oldest(closes) ==
    IF Len(closes) <= 2 THEN closes ELSE SubSeq(closes, 1, 2)

_latest_two_closes_from_candles(closes) ==
    IF Len(closes) <= 2 THEN closes ELSE SubSeq(closes, Len(closes) - 1, Len(closes))

(* The port calls get_quote makes, in order: pub.depth, and pub.ticker     *)
(* unless the try block returned.  A depth answer of None stands for an    *)
(* exception anywhere in the try block: the call, the parse of the book or *)
(* the parse of the timestamp.                                             *)
get_quote_calls(depth) ==
    LET d == _parse_depth_best(depth[1])
    IN  IF depth # None /\ d.best_bid > 0 /\ d.best_ask > 0
        THEN <<"depth">>
        ELSE <<"depth", "ticker">>

(* The mutant asks the ticker first and the depth only when it raises. *)
get_quote_tickerfirst(depth, ticker) ==
    LET d == _parse_depth_best(depth[1])
    IN  IF ticker # None
        THEN LET t == _parse_ticker_best(ticker[1])
                 price == IF t.best_ask # 0 THEN t.best_ask ELSE t.last
                 sp == IF t.best_bid # 0 /\ t.best_ask # 0
                       THEN _spread_pct(t.best_bid, t.best_ask) ELSE Rat(0, 1)
             IN  Some(Quote(price, t.best_bid, t.best_ask, Some(sp)))
        ELSE IF depth # None /\ d.best_bid > 0 /\ d.best_ask > 0
        THEN Some(Quote(d.best_ask, d.best_bid, d.best_ask,
                        Some(_spread_pct(d.best_bid, d.best_ask))))
        ELSE None

(* get_quote: None when pub.ticker raises on the fallback path. *)
get_quote(depth, ticker) ==
    LET d == _parse_depth_best(depth[1])
    IN  IF depth # None /\ d.best_bid > 0 /\ d.best_ask > 0
        THEN Some(Quote(d.best_ask, d.best_bid, d.best_ask,
                        Some(_spread_pct(d.best_bid, d.best_ask))))
        ELSE IF ticker = None THEN None
        ELSE LET t == _parse_ticker_best(ticker[1])
                 price == IF t.best_ask # 0 THEN t.best_ask ELSE t.last
                 sp == IF t.best_bid # 0 /\ t.best_ask # 0
                       THEN _spread_pct(t.best_bid, t.best_ask) ELSE Rat(0, 1)
             IN  Some(Quote(price, t.best_bid, t.best_ask, Some(sp)))

(* The candlestick calls vol5m_pct makes, in order: today's candles, and   *)
(* yesterday's when today's call returned fewer than two closes.           *)
vol5m_calls(today) ==
    IF today # None /\ Len(_latest_two_closes_from_candles(today[1])) < 2
    THEN <<"today", "yday">>
    ELSE <<"today">>

(* vol5m_pct: None when a candlestick call raises; yesterday's candles are *)
(* requested only when today has fewer than two closes.                    *)
vol5m_pct(today, yday) ==
    IF today = None THEN None
    ELSE LET c1 == _latest_two_closes_from_candles(today[1])
         IN  IF Len(c1) < 2 /\ yday = None THEN None
             ELSE LET all == IF Len(c1) < 2
                             THEN _latest_two_closes_from_candles(yday[1]) \o c1
                             ELSE c1
                      closes == _latest_two_closes_from_candles(all)
                  IN  IF Len(closes) < 2 \/ closes[1] = 0 THEN Some(Rat(0, 1))
                      ELSE Some(RatNorm(Rat(Abs(closes[2] - closes[1]), Abs(closes[1]))))

(* change24h_pct, in percent: None when pub.ticker raises. *)
change24h_pct(ticker) ==
    IF ticker = None THEN None
    ELSE LET data == ticker[1]
         IN  IF data.open # None /\ data.last # None /\ data.open[1] > 0
             THEN Some(RatNorm(Rat((data.last[1] - data.open[1]) * 100, data.open[1])))
             ELSE Some(Rat(0, 1))

-----------------------------------------------------------------------------
(* specs.py and rounding.py.  Quantities are rationals, in coins.          *)
PairSpec(min_size, size_step, price_step) ==
    [min_size |-> min_size, size_step |-> size_step, price_step |-> price_step]

(* PairSpecRepository's built-in table: both pairs carry the same limits. *)
get_pair_spec(pair) == PairSpec(Rat(1, 10000), Rat(1, 10000), Rat(1, 1))

(* The doubles (raw_qty - base) / size_step that fall just below the exact *)
(* integer quotient, as <<raw.n, raw.d, min.n, min.d, step.n, step.d>>     *)
(* (raw_qty in lowest terms): there math.floor yields one step less than   *)
(* exact arithmetic.  Complete for raw_qty = a / p, 0 <= a <= 21,          *)
(* p in {10000, 50000}, under the built-in pair limits, and for raw_qty on *)
(* the grid k / 100000, 0 <= k <= 70, and raw_qty = 0.00014999 under the   *)
(* limits of RoundSpecs.                                                   *)
FloorShort ==
    { <<1, 4000, 1, 5000, 1, 20000>>, <<3, 5000, 1, 5000, 1, 20000>>,
      <<3, 10000, 1, 5000, 1, 20000>>, <<7, 20000, 1, 5000, 1, 20000>>,
      <<3, 2500, 1, 10000, 1, 10000>>, <<3, 5000, 1, 10000, 1, 10000>>,
      <<7, 5000, 1, 10000, 1, 10000>>, <<3, 10000, 1, 10000, 1, 10000>>,
      <<7, 10000, 1, 10000, 1, 10000>>, <<9, 10000, 1, 10000, 1, 10000>>,
      <<13, 10000, 1, 10000, 1, 10000>>, <<17, 10000, 1, 10000, 1, 10000>> }

LCM(a, b) == (a \div GCD(a, b)) * b

round_qty_down(spec, raw_qty) ==
    IF RatLT(raw_qty, spec.min_size) THEN Rat(0, 1)
    ELSE LET base == spec.min_size
             step == spec.size_step
             l == LCM(raw_qty.d, base.d)
             diff == RatNorm(Rat(raw_qty.n * (l \div raw_qty.d)
                                    - base.n * (l \div base.d), l))
             exact == (diff.n * step.d) \div (diff.d * step.n)
             steps == IF <<raw_qty.n, raw_qty.d, base.n, base.d, step.n, step.d>>
                            \in FloorShort
                      THEN exact - 1 ELSE exact
         IN  RatNorm(Rat(base.n * step.d + steps * step.n * base.d, base.d * step.d))

-----------------------------------------------------------------------------
(* orders.py.  The details dict of a report is left out: no decision reads *)
(* it.  reason and avg_price are Optional.                                 *)
PairOrderPlan(pair, jpy_alloc, quote, raw_qty, qty) ==
    [pair |-> pair, jpy_alloc |-> jpy_alloc, quote |-> quote,
     raw_qty |-> raw_qty, qty |-> qty]

PairExecutionReport(pair, status, reason, jpy_planned, quote_price, avg_price, executed_qty) ==
    [pair |-> pair, status |-> status, reason |-> reason,
     jpy_planned |-> jpy_planned, quote_price |-> quote_price,
     avg_price |-> avg_price, executed_qty |-> executed_qty]

(* build_plan_for_pair: None when get_quote raises. *)
build_plan_for_pair(depth, ticker, spec, pair, jpy_alloc) ==
    LET q == get_quote(depth, ticker)
    IN  IF q = None THEN None
        ELSE LET quote == q[1]
                 raw_qty == IF quote.price > 0
                            THEN RatNorm(Rat(jpy_alloc, quote.price))
                            ELSE Rat(0, 1)
             IN  Some(PairOrderPlan(pair, jpy_alloc, quote, raw_qty,
                                    round_qty_down(spec, raw_qty)))

(* The size test without the test for zero and the minimum size. *)
BelowMinSize_negative(plan, spec) == RatLT(plan.qty, Rat(0, 1))

(* "plan.qty is None or plan.qty <= 0 or plan.qty < spec.min_size" *)
BelowMinSize(plan, spec) ==
    \/ RatLE(plan.qty, Rat(0, 1))
    \/ RatLT(plan.qty, spec.min_size)

(* os.getenv("DCA_LIVE", "0").lower() in ("1", "true", "on", "yes"); the   *)
(* value "unset" stands for the variable being absent.                     *)
LiveEnabled_unless_zero(dca_live_env) ==
    (IF dca_live_env = "unset" THEN "1" ELSE dca_live_env) # "0"

LiveEnabled(dca_live_env) ==
    (IF dca_live_env = "unset" THEN "0" ELSE dca_live_env)
        \in {"1", "true", "on", "yes"}

_collect_avg_and_qty(order_res) ==
    [avg |-> order_res.avg_price, qty |-> order_res.executed_size]

(* execute_plan_for_pair, as the effects of one call: the report returned  *)
(* (None when an exception leaves the function), the port call that raised *)
(* (None when none did), the volatility sample taken (None when the        *)
(* function returned before sampling) and the order sent (None when        *)
(* market_buy was not called).  today/yday are the candlestick answers and *)
(* order_res the answer of prv.market_buy, None when the call raises.      *)
Effects(report, raises, vol, order) ==
    [report |-> report, raises |-> raises, vol |-> vol, order |-> order]

execute_plan_for_pair(plan, guard_params, dca_live_env, today, yday, order_res) ==
    LET pair == plan.pair
        spec == get_pair_spec(pair)
        skipped(reason) ==
            Some(PairExecutionReport(pair, "SKIPPED", Some(reason), plan.jpy_alloc,
                                     plan.quote.price, None, Rat(0, 1)))
        vol == vol5m_pct(today, yday)
        guard == evaluate_pair_guard(plan.quote, vol[1], guard_params)
        order == [pair |-> pair, size |-> plan.qty]
        filled == _collect_avg_and_qty(order_res[1])
    IN  IF BelowMinSize(plan, spec)
        THEN Effects(skipped("MIN_SIZE"), None, None, None)
        ELSE IF vol = None
        THEN Effects(None, Some("vol5m_pct"), None, None)
        ELSE IF ~guard.ok
        THEN Effects(skipped(guard.reason), None, vol, None)
        ELSE IF ~LiveEnabled(dca_live_env)
        THEN Effects(skipped("LIVE_DISABLED"), None, vol, None)
        ELSE IF order_res = None
        THEN Effects(None, Some("market_buy"), vol, Some(order))
        ELSE Effects(Some(PairExecutionReport(pair, "FILLED", None, plan.jpy_alloc,
                                              plan.quote.price, Some(filled.avg),
                                              filled.qty)),
                     None, vol, Some(order))

-----------------------------------------------------------------------------
(* private_client.py: the threads that may call _next_nonce on the client. *)
Threads == 1..NumThreads

(* The client as constructed, no call of _next_nonce under way. *)
NonceIdle ==
    /\ _nonce_lock = 0
    /\ _last_nonce = 0
    /\ npc = [t \in Threads |-> "idle"]
    /\ now = [t \in Threads |-> 0]
    /\ nonces = << >>

(* The variables of a run while a single function is under call. *)
RunIdle ==
    /\ pc = "idle" /\ dry_run = FALSE /\ dca_live = "unset" /\ cfg = << >>
    /\ pair_table = {}
    /\ base_allocs = << >> /\ quotes = << >> /\ vol5m_map = << >>
    /\ chg24h_map = << >> /\ dip_flag_map = << >> /\ final_allocs = << >>
    /\ free_jpy_before = << >> /\ idx = 0
    /\ plans = << >> /\ reports = << >> /\ execs = << >>
    /\ notified = << >> /\ raised = << >>
    /\ NonceIdle

-----------------------------------------------------------------------------
(* Specification SpecAlloc: one call of allocate_amounts on every input.   *)
InitAlloc ==
    /\ fpc = "call"
    /\ RunIdle
    /\ arg \in [weights : WeightSeqs, total_jpy : 0..MaxTotal]
    /\ ret = << >>

CallAllocate ==
    /\ fpc = "call"
    /\ fpc' = "ret"
    /\ ret' = allocate_amounts(arg.weights, arg.total_jpy)
    /\ UNCHANGED <<arg, rvars, nvars>>

SpecAlloc == InitAlloc /\ [][CallAllocate]_vars

-----------------------------------------------------------------------------
(* Claim C1. *)
(* floor(total * normalizedWeight) in exact arithmetic; the weights are    *)
(* normalised by their sum, or split equally when the sum is <= 0.         *)
ExactShare(weights, total_jpy, i) ==
    IF SumSeq(weights) <= 0 THEN total_jpy \div Len(weights)
    ELSE (total_jpy * weights[i]) \div SumSeq(weights)

ShareIsExactInteger(weights, total_jpy, i) ==
    IF SumSeq(weights) <= 0 THEN total_jpy % Len(weights) = 0
    ELSE (total_jpy * weights[i]) % SumSeq(weights) = 0

(* C1 as stated: for every ordered set of pairs with nonnegative weights   *)
(* and every total >= 0 the amounts returned by allocate_amounts sum to    *)
(* exactly total, every amount is a nonnegative integer, every pair except *)
(* the last receives floor(total * normalizedWeight) and the last receives *)
(* total minus the sum already assigned.                                   *)
C1_AsStated ==
    fpc = "ret" =>
        LET n == Len(arg.weights)
        IN  /\ Len(ret) = n
            /\ SumSeq(ret) = arg.total_jpy
            /\ \A i \in 1..n : ret[i] \in Nat
            /\ \A i \in 1..(n - 1) : ret[i] = ExactShare(arg.weights, arg.total_jpy, i)
            /\ n > 0 => ret[n] = arg.total_jpy - SumTo(ret, n - 1)

(* C1 amended: for every NON-EMPTY ordered set of pairs the amounts sum to *)
(* exactly total, every amount is a nonnegative integer, the last pair     *)
(* receives total minus the sum already assigned, and every other pair     *)
(* receives the double-precision truncation int(total * normalizedWeight): *)
(* the exact floor, or one less than it where the exact product is an      *)
(* integer that the binary product falls just short of.  An empty pair set *)
(* returns an empty allocation (sum 0).                                    *)
C1_Conservation ==
    fpc = "ret" =>
        LET n == Len(arg.weights)
        IN  /\ Len(ret) = n
            /\ n > 0 => SumSeq(ret) = arg.total_jpy
            /\ \A i \in 1..n : ret[i] \in Nat
            /\ \A i \in 1..(n - 1) :
                  \/ ret[i] = ExactShare(arg.weights, arg.total_jpy, i)
                  \/ /\ ret[i] = ExactShare(arg.weights, arg.total_jpy, i) - 1
                     /\ ShareIsExactInteger(arg.weights, arg.total_jpy, i)
            /\ n > 0 => ret[n] = arg.total_jpy - SumTo(ret, n - 1)

(* Witness: a three-pair allocation in which the binary product fell short *)
(* for one pair and the last pair absorbed the difference.                 *)
C1_Witness ==
    /\ fpc = "ret"
    /\ Len(arg.weights) = 3
    /\ \E i \in 1..2 : ret[i] = ExactShare(arg.weights, arg.total_jpy, i) - 1
    /\ ret[3] > ExactShare(arg.weights, arg.total_jpy, 3)
    /\ SumSeq(ret) = arg.total_jpy

-----------------------------------------------------------------------------
(* Specification SpecDip: one call of apply_dip_multiplier on every input  *)
(* whose base allocation sums to base_total.                               *)
(* Two pairs with the larger amounts 7 and 15, where the double product    *)
(* extra * (alloc / dip_base_sum) can fall short of an exact integer.      *)
DipArgsWide ==
    { [dip_flags |-> f, allocs |-> a, base_total |-> SumSeq(a),
       multiplier |-> m, cap_total |-> c] :
        f \in [1..2 -> BOOLEAN], a \in [1..2 -> {7, 15}],
        m \in {Rat(3, 2), Rat(2, 1)}, c \in {30, 60} }

(* The worked example of the specification: btc_jpy 7000 in a dip,         *)
(* eth_jpy 3000 not, multiplier 1.5, cap 15000.                            *)
ScenarioB ==
    [dip_flags |-> <<TRUE, FALSE>>, allocs |-> <<7000, 3000>>, base_total |-> 10000,
     multiplier |-> Rat(3, 2), cap_total |-> 15000]

DipArgs ==
    { [dip_flags |-> f, allocs |-> a, base_total |-> SumSeq(a),
       multiplier |-> m, cap_total |-> c] :
        f \in [1..4 -> BOOLEAN], a \in [1..4 -> 0..MaxAlloc],
        m \in Multipliers, c \in CapLevels }
    \cup DipArgsWide \cup {ScenarioB}

InitDip ==
    /\ fpc = "call"
    /\ RunIdle
    /\ arg \in DipArgs
    /\ ret = << >>

CallApplyDip ==
    /\ fpc = "call"
    /\ fpc' = "ret"
    /\ ret' = apply_dip_multiplier(arg.dip_flags, arg.allocs, arg.base_total,
                                   arg.multiplier, arg.cap_total)
    /\ UNCHANGED <<arg, rvars, nvars>>

SpecDip == InitDip /\ [][CallApplyDip]_vars

-----------------------------------------------------------------------------
(* Claim C2. *)
(* min(floor(baseTotal * multiplier), capTotal) in exact arithmetic. *)
ExactDipCap(a) == Min2((a.base_total * a.multiplier.n) \div a.multiplier.d, a.cap_total)

-----------------------------------------------------------------------------
(* Claims C14-C17: the quantities the specification names, in exact        *)
(* arithmetic, for the arguments a of one call.                            *)
DipExtra(a) == ExactDipCap(a) - a.base_total

DipPairs(a) == {i \in 1..Len(a.allocs) : a.dip_flags[i]}

DipBaseSum(a) ==
    SumSeq([i \in 1..Len(a.allocs) |-> IF a.dip_flags[i] THEN a.allocs[i] ELSE 0])

LastDip(a) == CHOOSE i \in DipPairs(a) : \A j \in DipPairs(a) : j <= i

(* floor(extra * share of the dip base sum) *)
ExactDipShare(a, i) == (DipExtra(a) * a.allocs[i]) \div DipBaseSum(a)

Proportional(a) ==
    /\ DipExtra(a) > 0
    /\ DipPairs(a) # {}
    /\ DipBaseSum(a) > 0

(* C14 as stated: when extra > 0 and the dip pairs have a positive         *)
(* combined base, every dip pair except the last gains exactly             *)
(* floor(extra * share), the last gains extra minus what was assigned,     *)
(* every gain is nonnegative and the result sums to sum(base) + extra.     *)
C14_AsStated ==
    (fpc = "ret" /\ Proportional(arg)) =>
        /\ \A i \in DipPairs(arg) \ {LastDip(arg)} :
              ret[i] - arg.allocs[i] = ExactDipShare(arg, i)
        /\ ret[LastDip(arg)] - arg.allocs[LastDip(arg)]
              = DipExtra(arg) - SumSeq([i \in 1..Len(ret) |->
                    IF i \in DipPairs(arg) \ {LastDip(arg)}
                    THEN ret[i] - arg.allocs[i] ELSE 0])
        /\ \A i \in 1..Len(ret) : ret[i] - arg.allocs[i] >= 0
        /\ SumSeq(ret) = SumSeq(arg.allocs) + DipExtra(arg)

(* C14 amended: the same, except that a dip pair other than the last gains *)
(* the double-precision truncation int(extra * share): the exact floor, or *)
(* one less than it where extra * share is an exact integer that the       *)
(* binary product falls just short of; the last dip pair absorbs it.       *)
C14_DipConservation ==
    (fpc = "ret" /\ Proportional(arg)) =>
        /\ \A i \in DipPairs(arg) \ {LastDip(arg)} :
              \/ ret[i] - arg.allocs[i] = ExactDipShare(arg, i)
              \/ /\ ret[i] - arg.allocs[i] = ExactDipShare(arg, i) - 1
                 /\ (DipExtra(arg) * arg.allocs[i]) % DipBaseSum(arg) = 0
        /\ ret[LastDip(arg)] - arg.allocs[LastDip(arg)]
              = DipExtra(arg) - SumSeq([i \in 1..Len(ret) |->
                    IF i \in DipPairs(arg) \ {LastDip(arg)}
                    THEN ret[i] - arg.allocs[i] ELSE 0])
        /\ \A i \in 1..Len(ret) : ret[i] - arg.allocs[i] >= 0
        /\ SumSeq(ret) = SumSeq(arg.allocs) + DipExtra(arg)

(* Witness: extra 22 over dip pairs 15 and 7; the first gained 14, one     *)
(* short of floor(22 * 15 / 22) = 15, and the last gained the other 8.     *)
C14_Witness ==
    /\ fpc = "ret"
    /\ Proportional(arg)
    /\ Cardinality(DipPairs(arg)) = 2
    /\ \E i \in DipPairs(arg) \ {LastDip(arg)} :
          ret[i] - arg.allocs[i] = ExactDipShare(arg, i) - 1
    /\ SumSeq(ret) = SumSeq(arg.allocs) + DipExtra(arg)

-----------------------------------------------------------------------------
(* Claim C15: apply_dip_multiplier returns the base allocation, pair by    *)
(* pair, whenever baseTotal <= 0, or multiplier <= 1, or no pair is in a   *)
(* dip, or the extra is <= 0; and a call never changes the base allocation *)
(* (or any other argument) it was given.                                   *)
NoOpCase(a) ==
    \/ a.base_total <= 0
    \/ RatLE(a.multiplier, Rat(1, 1))
    \/ DipPairs(a) = {}
    \/ DipExtra(a) <= 0

-----------------------------------------------------------------------------
(* Claim C16: for every input, the result holds the same pairs as the base *)
(* allocation, every pair that is not in a dip keeps its base amount, and  *)
(* no pair's amount is below its base amount.                              *)
C16_NonDipUntouched ==
    fpc = "ret" =>
        /\ DOMAIN ret = DOMAIN arg.allocs
        /\ \A i \in DOMAIN arg.allocs :
            /\ ~arg.dip_flags[i] => ret[i] = arg.allocs[i]
            /\ ret[i] >= arg.allocs[i]

(* Witness: extra was handed out while a pair outside the dip with a       *)
(* positive base amount kept it.                                           *)
C16_Witness ==
    /\ fpc = "ret"
    /\ SumSeq(ret) > SumSeq(arg.allocs)
    /\ \E i \in DOMAIN arg.allocs :
        ~arg.dip_flags[i] /\ arg.allocs[i] > 0 /\ ret[i] = arg.allocs[i]

-----------------------------------------------------------------------------
(* Claim C17 (as stated): on ScenarioB the target total is 10500 and the   *)
(* result is btc_jpy 10500, eth_jpy 3000.                                  *)
C17_AsStated ==
    (fpc = "ret" /\ arg = ScenarioB) =>
        /\ DipTargetTotal(arg.base_total, arg.multiplier, arg.cap_total) = 10500
        /\ ret = <<10500, 3000>>

(* Claim C17 (amended): on ScenarioB the target total is                   *)
(* min(floor(10000 * 1.5), 15000) = 15000, the extra is 5000, all of it    *)
(* goes to btc_jpy, and the result is btc_jpy 12000, eth_jpy 3000.         *)
C17_ScenarioB ==
    (fpc = "ret" /\ arg = ScenarioB) =>
        /\ DipTargetTotal(arg.base_total, arg.multiplier, arg.cap_total) = 15000
        /\ DipTargetTotal(arg.base_total, arg.multiplier, arg.cap_total)
              - arg.base_total = 5000
        /\ ret = <<12000, 3000>>

C17_Witness ==
    /\ fpc = "ret"
    /\ arg = ScenarioB
    /\ ret[1] = 12000

-----------------------------------------------------------------------------
(* Claim C25 (as stated): when extra > 0 and the n dip-flagged pairs have  *)
(* a combined base allocation of 0, apply_dip_multiplier adds              *)
(* floor(extra / n) to every dip pair and the whole remainder              *)
(* (extra mod n) to the last dip pair, so that the added amounts sum to    *)
(* exactly extra.                                                          *)
EvenSplit(a) ==
    /\ DipExtra(a) > 0
    /\ DipPairs(a) # {}
    /\ DipBaseSum(a) = 0

C25_EvenSplit ==
    (fpc = "ret" /\ EvenSplit(arg)) =>
        LET n == Cardinality(DipPairs(arg))
        IN  /\ \A i \in DipPairs(arg) \ {LastDip(arg)} :
                  ret[i] - arg.allocs[i] = DipExtra(arg) \div n
            /\ ret[LastDip(arg)] - arg.allocs[LastDip(arg)]
                  = (DipExtra(arg) \div n) + (DipExtra(arg) % n)
            /\ SumSeq(ret) = SumSeq(arg.allocs) + DipExtra(arg)

-----------------------------------------------------------------------------
(* Specification SpecGuard: one call of evaluate_pair_guard on every       *)
(* combination of quote, volatility sample and parameters below.           *)
GuardLevels == {Rat(0, 1), Rat(1, 2), Rat(1, 1), Rat(3, 2)}
GuardLimits == {Rat(1, 2), Rat(1, 1)}
GuardPrices == {-1, 0, 1}

GuardArgs ==
    [quote : {Quote(p, b, a, sp) : p \in GuardPrices, b \in GuardPrices,
                                   a \in GuardPrices,
                                   sp \in {None} \cup {Some(x) : x \in GuardLevels}},
     vol5m_abs : GuardLevels,
     params : {GuardParams(ms, mv, sl, k) : ms \in GuardLimits, mv \in GuardLimits,
                                            sl \in {None, Some(Rat(0, 1)), Some(Rat(1, 1))},
                                            k \in BOOLEAN}]

InitGuard ==
    /\ fpc = "call"
    /\ RunIdle
    /\ arg \in GuardArgs
    /\ ret = << >>

CallGuard ==
    /\ fpc = "call"
    /\ fpc' = "ret"
    /\ ret' = evaluate_pair_guard(arg.quote, arg.vol5m_abs, arg.params)
    /\ UNCHANGED <<arg, rvars, nvars>>

SpecGuard == InitGuard /\ [][CallGuard]_vars

-----------------------------------------------------------------------------
(* Claim C7. *)
C7_Kill == arg.params.kill_switch

C7_Data ==
    arg.quote.price <= 0 \/ (arg.quote.best_bid <= 0 /\ arg.quote.best_ask <= 0)

C7_Spread ==
    /\ arg.quote.spread_pct # None
    /\ arg.quote.spread_pct[1].n * arg.params.max_spread_pct.d
          > arg.params.max_spread_pct.n * arg.quote.spread_pct[1].d

C7_Vol ==
    arg.vol5m_abs.n * arg.params.max_vol5m_pct.d
        > arg.params.max_vol5m_pct.n * arg.vol5m_abs.d

(* C7: evaluate_pair_guard returns the outcome of the first matching rule  *)
(* in the order KILL, DATA (price <= 0, or bid and ask both <= 0), SPREAD  *)
(* (spread strictly above its limit), VOL (volatility strictly above its   *)
(* limit); an active kill switch rejects with KILL whatever the other      *)
(* inputs are; when no rule matches the decision allows with no reason and *)
(* empty detail.                                                           *)
C7_GuardRuleOrder ==
    fpc = "ret" =>
        /\ C7_Kill => ret = [ok |-> FALSE, reason |-> "KILL", meta |-> << >>]
        /\ (~C7_Kill /\ C7_Data) =>
              /\ ~ret.ok /\ ret.reason = "DATA"
              /\ ret.meta = << <<"price", arg.quote.price>>,
                               <<"best_bid", arg.quote.best_bid>>,
                               <<"best_ask", arg.quote.best_ask>> >>
        /\ (~C7_Kill /\ ~C7_Data /\ C7_Spread) =>
              /\ ~ret.ok /\ ret.reason = "SPREAD"
              /\ ret.meta = << <<"spread", arg.quote.spread_pct[1]>>,
                               <<"limit", arg.params.max_spread_pct>> >>
        /\ (~C7_Kill /\ ~C7_Data /\ ~C7_Spread /\ C7_Vol) =>
              /\ ~ret.ok /\ ret.reason = "VOL"
              /\ ret.meta = << <<"vol5m_abs", arg.vol5m_abs>>,
                               <<"limit", arg.params.max_vol5m_pct>> >>
        /\ (~C7_Kill /\ ~C7_Data /\ ~C7_Spread /\ ~C7_Vol) =>
              ret = [ok |-> TRUE, reason |-> "NONE", meta |-> << >>]

(* Witness: spread and volatility both exceed their limits and the earlier *)
(* rule, SPREAD, decided.                                                  *)
C7_Witness ==
    /\ fpc = "ret"
    /\ ~C7_Kill /\ ~C7_Data /\ C7_Spread /\ C7_Vol
    /\ ret.reason = "SPREAD"

-----------------------------------------------------------------------------
(* Claim C26: for every quote, volatility sample and setting of the other  *)
(* guard parameters, evaluate_pair_guard returns the same decision, reason *)
(* and detail whether the slippage limit is unset or set to any value; the *)
(* configured slippage check never rejects.                                *)
SlipLimits == {None, Some(Rat(0, 1)), Some(Rat(1, 2)), Some(Rat(1, 1))}

C26_SlipNoInfluence ==
    fpc = "ret" =>
        /\ \A s \in SlipLimits :
              evaluate_pair_guard(arg.quote, arg.vol5m_abs,
                                  [arg.params EXCEPT !.max_slip_pct = s]) = ret
        /\ ret.reason # "SLIP"

(* Witness: the strictest slippage limit, 0, is configured and the guard   *)
(* allowed.                                                                *)
C26_Witness ==
    /\ fpc = "ret"
    /\ arg.params.max_slip_pct = Some(Rat(0, 1))
    /\ ret = [ok |-> TRUE, reason |-> "NONE", meta |-> << >>]

-----------------------------------------------------------------------------
(* Specification SpecRound: round_qty_down on every raw quantity of a grid *)
(* of 0.00001 coin (and on 0.00014999), under three pair limits: the       *)
(* built-in ones, a minimum size that is not a multiple of the step, and a *)
(* step finer than the minimum size; then round_qty_down again on the      *)
(* result.                                                                 *)
RoundSpecs ==
    { PairSpec(Rat(1, 10000), Rat(1, 10000), Rat(1, 1)),
      PairSpec(Rat(3, 20000), Rat(1, 10000), Rat(1, 1)),
      PairSpec(Rat(1, 5000), Rat(1, 20000), Rat(1, 1)) }

RoundQtys ==
    {RatNorm(Rat(k, 100000)) : k \in 0..MaxQtyTicks} \cup {Rat(14999, 100000000)}

InitRound ==
    /\ fpc = "call"
    /\ RunIdle
    /\ arg \in [spec : RoundSpecs, raw_qty : RoundQtys]
    /\ ret = << >>

CallRound ==
    /\ fpc = "call"
    /\ fpc' = "ret"
    /\ ret' = round_qty_down(arg.spec, arg.raw_qty)
    /\ UNCHANGED <<arg, rvars, nvars>>

(* The result is rounded once more. *)
CallRoundAgain ==
    /\ fpc = "ret"
    /\ fpc' = "ret2"
    /\ arg' = [arg EXCEPT !.raw_qty = ret]
    /\ ret' = round_qty_down(arg.spec, ret)
    /\ UNCHANGED <<rvars, nvars>>

SpecRound == InitRound /\ [][CallRound \/ CallRoundAgain]_vars

-----------------------------------------------------------------------------
(* Claim C18 (as stated): round_qty_down returns exactly 0 when            *)
(* x < minSize, and otherwise minSize + k * step for the largest integer   *)
(* k >= 0 with minSize + k * step <= x: the result is >= minSize, <= x,    *)
(* less than one step below x, and a whole number of steps above minSize.  *)
RatSub(x, y) ==
    LET l == LCM(x.d, y.d)
    IN  RatNorm(Rat(x.n * (l \div x.d) - y.n * (l \div y.d), l))

WholeSteps(x, step) == (x.n * step.d) % (x.d * step.n) = 0

C18_RoundShape ==
    fpc \in {"ret", "ret2"} =>
        IF RatLT(arg.raw_qty, arg.spec.min_size)
        THEN ret = Rat(0, 1)
        ELSE /\ RatLE(arg.spec.min_size, ret)
             /\ RatLE(ret, arg.raw_qty)
             /\ RatLT(RatSub(arg.raw_qty, ret), arg.spec.size_step)
             /\ WholeSteps(RatSub(ret, arg.spec.min_size), arg.spec.size_step)

-----------------------------------------------------------------------------
(* Claim C19 (as stated): rounding the result of round_qty_down again      *)
(* returns it unchanged.                                                   *)
C19_RoundIdempotent ==
    fpc = "ret2" => ret = arg.raw_qty

-----------------------------------------------------------------------------
(* Specification SpecQuote: get_quote on every pair of answers of          *)
(* pub.depth and pub.ticker: each call raises or returns; a book side is   *)
(* empty, or its best price is 0 or positive; a ticker field is absent,    *)
(* negative, 0 or positive.                                                *)
DepthAnswers ==
    {None} \cup {Some(Depth(b, a)) : b \in {<< >>, <<0>>, <<100>>},
                                     a \in {<< >>, <<0>>, <<101>>}}

TickerAnswers ==
    {None} \cup {Some(Ticker(b, s, l, Some(100))) :
                    b \in {None, Some(-1), Some(0), Some(100)},
                    s \in {None, Some(-1), Some(0), Some(101)},
                    l \in {None, Some(0), Some(100)}}

InitQuote ==
    /\ fpc = "call"
    /\ RunIdle
    /\ arg \in [depth : DepthAnswers, ticker : TickerAnswers, calls : {<< >>}]
    /\ ret = << >>

CallQuote ==
    /\ fpc = "call"
    /\ fpc' = "ret"
    /\ ret' = get_quote(arg.depth, arg.ticker)
    /\ arg' = [arg EXCEPT !.calls = get_quote_calls(arg.depth)]
    /\ UNCHANGED <<rvars, nvars>>

SpecQuote == InitQuote /\ [][CallQuote]_vars

(* The depth answer yields a usable price: the call returned a book whose  *)
(* best bid and best ask are both positive.                                *)
DepthUsable(depth) ==
    /\ depth # None
    /\ _parse_depth_best(depth[1]).best_bid > 0
    /\ _parse_depth_best(depth[1]).best_ask > 0

(* The ticker answer yields a usable price: the call returned a positive   *)
(* best ask or, with no ask, a positive last trade price.                  *)
TickerUsable(ticker) ==
    /\ ticker # None
    /\ LET t == _parse_ticker_best(ticker[1])
       IN  \/ t.best_ask > 0
           \/ t.best_ask = 0 /\ t.last > 0

(* Claim C20 (as stated): get_quote fails if and only if neither the       *)
(* order-book depth nor the ticker yields a usable price; whenever a price *)
(* is obtainable a Quote is returned, with spread 0 when the bid or the    *)
(* ask it carries is missing or non-positive.                              *)
C20_QuoteFailsIffNoPrice ==
    fpc = "ret" =>
        /\ ret = None <=> (~DepthUsable(arg.depth) /\ ~TickerUsable(arg.ticker))
        /\ (ret # None /\ (ret[1].best_bid <= 0 \/ ret[1].best_ask <= 0))
               => ret[1].spread_pct = Some(Rat(0, 1))

-----------------------------------------------------------------------------
(* Claim C21: every Quote returned by get_quote, from the depth path or    *)
(* from the ticker fallback, has spread_pct = 0 whenever its best bid or   *)
(* its best ask is non-positive, and otherwise                             *)
(* spread_pct = (ask - bid) / ((bid + ask) / 2).                           *)
C21_QuoteSpread ==
    (fpc = "ret" /\ ret # None) =>
        LET q == ret[1]
        IN  /\ q.spread_pct # None
            /\ IF q.best_bid <= 0 \/ q.best_ask <= 0
               THEN q.spread_pct[1] = Rat(0, 1)
               ELSE q.spread_pct[1].n * (q.best_bid + q.best_ask)
                        = 2 * (q.best_ask - q.best_bid) * q.spread_pct[1].d

(* The ticker fallback returned a quote whose bid and ask are both         *)
(* non-zero and one of them negative.                                      *)
C21_Witness ==
    /\ fpc = "ret"
    /\ ~DepthUsable(arg.depth)
    /\ ret # None
    /\ ret[1].best_bid = 100
    /\ ret[1].best_ask = -1
    /\ ret[1].spread_pct = Some(Rat(0, 1))

-----------------------------------------------------------------------------
(* Claim C27: get_quote consults the order-book depth first and, when the  *)
(* top bid and the top ask are both positive, returns price = best ask     *)
(* without consulting the ticker; it consults the ticker if and only if    *)
(* the depth call failed or did not yield both sides positive, and then    *)
(* returns price = ticker best ask, or the last trade price when no ask is *)
(* available (the sell field absent or 0; 0 when there is no last trade    *)
(* price either).                                                          *)
TickerAskAvailable(data) == data.sell # None /\ data.sell[1] # 0

C27_QuoteSourceOrder ==
    fpc = "ret" =>
        /\ arg.calls # << >> /\ arg.calls[1] = "depth"
        /\ (\E i \in 1..Len(arg.calls) : arg.calls[i] = "ticker")
              <=> ~DepthUsable(arg.depth)
        /\ DepthUsable(arg.depth) =>
              /\ ret # None
              /\ ret[1].price = arg.depth[1].asks[1]
        /\ (~DepthUsable(arg.depth) /\ ret # None) =>
              /\ arg.ticker # None
              /\ ret[1].price =
                    IF TickerAskAvailable(arg.ticker[1]) THEN arg.ticker[1].sell[1]
                    ELSE IF arg.ticker[1].last # None THEN arg.ticker[1].last[1]
                    ELSE 0

(* Witness: both sources answered with a usable price, and the quote       *)
(* carries the book's ask, 101, with the ticker not consulted.             *)
C27_Witness ==
    /\ fpc = "ret"
    /\ DepthUsable(arg.depth)
    /\ TickerUsable(arg.ticker)
    /\ arg.calls = <<"depth">>
    /\ ret # None
    /\ ret[1].price = 101

-----------------------------------------------------------------------------
(* Specification SpecVol: vol5m_pct on every pair of answers of the two    *)
(* candlestick calls: each raises, or returns up to MaxCloses closes.      *)
ClosePrices == {-100, 0, 100, 103}

CloseSeqs == UNION {[1..n -> ClosePrices] : n \in 0..MaxCloses}

CandleAnswersAll == {None} \cup {Some(c) : c \in CloseSeqs}

InitVol ==
    /\ fpc = "call"
    /\ RunIdle
    /\ arg \in [today : CandleAnswersAll, yday : CandleAnswersAll, calls : {<< >>}]
    /\ ret = << >>

CallVol ==
    /\ fpc = "call"
    /\ fpc' = "ret"
    /\ ret' = vol5m_pct(arg.today, arg.yday)
    /\ arg' = [arg EXCEPT !.calls = vol5m_calls(arg.today)]
    /\ UNCHANGED <<rvars, nvars>>

SpecVol == InitVol /\ [][CallVol]_vars

(* Claim C28: vol5m_pct fetches the prior day's candles if and only if     *)
(* today's candles give fewer than two closes, then uses the last two      *)
(* closes of (prior day's closes followed by today's closes); when the     *)
(* candlestick calls it makes return, it returns 0.0, and never an error,  *)
(* whenever fewer than two closes are available in total or the earlier of *)
(* the two closes is 0, else abs(latest / earlier - 1); its result is      *)
(* never negative.                                                         *)
ClosesAvailable(a) ==
    IF Len(a.today[1]) < 2 THEN a.yday[1] \o a.today[1] ELSE a.today[1]

CandlesReturned(a) ==
    /\ a.today # None
    /\ Len(a.today[1]) < 2 => a.yday # None

C28_VolShortfall ==
    fpc = "ret" =>
        /\ arg.calls # << >> /\ arg.calls[1] = "today"
        /\ arg.today # None =>
              ((\E i \in 1..Len(arg.calls) : arg.calls[i] = "yday")
                  <=> Len(arg.today[1]) < 2)
        /\ ret = None <=> ~CandlesReturned(arg)
        /\ CandlesReturned(arg) =>
              LET c == ClosesAvailable(arg)
                  n == Len(c)
              IN  /\ RatLE(Rat(0, 1), ret[1])
                  /\ IF n < 2 \/ c[n - 1] = 0
                     THEN ret[1] = Rat(0, 1)
                     ELSE ret[1].n * Abs(c[n - 1]) = Abs(c[n] - c[n - 1]) * ret[1].d

(* Witness: today gave one close, 103, and yesterday's last close was 100: *)
(* the prior day was fetched and the reading is 3%.                        *)
C28_Witness ==
    /\ fpc = "ret"
    /\ arg.today = Some(<<103>>)
    /\ arg.calls = <<"today", "yday">>
    /\ arg.yday # None
    /\ Len(arg.yday[1]) = MaxCloses
    /\ ret = Some(Rat(3, 100))

-----------------------------------------------------------------------------
(* Specification SpecNonce: NumThreads threads call _next_nonce on one     *)
(* BitbankPrivateClient, at most MaxCalls times in all; every reading of   *)
(* the clock is any millisecond count in 0..MaxClock, so the clock may     *)
(* stall, jump or run backwards between two readings.                      *)
InitNonce ==
    /\ fpc = "idle" /\ arg = << >> /\ ret = << >>
    /\ RunIdle

(* "with self._nonce_lock:" without waiting for the lock. *)
Acquire_nolock(t) ==
    /\ npc[t] = "idle"
    /\ Len(nonces) < MaxCalls
    /\ _nonce_lock' = t
    /\ npc' = [npc EXCEPT ![t] = "clock"]
    /\ UNCHANGED <<_last_nonce, now, nonces, fvars, rvars>>

(* "with self._nonce_lock:" *)
Acquire(t) ==
    /\ npc[t] = "idle"
    /\ Len(nonces) < MaxCalls
    /\ _nonce_lock = 0
    /\ _nonce_lock' = t
    /\ npc' = [npc EXCEPT ![t] = "clock"]
    /\ UNCHANGED <<_last_nonce, now, nonces, fvars, rvars>>

(* "now = int(time.time() * 1000)" *)
ReadClock(t) ==
    /\ npc[t] = "clock"
    /\ \E c \in 0..MaxClock : now' = [now EXCEPT ![t] = c]
    /\ npc' = [npc EXCEPT ![t] = "check"]
    /\ UNCHANGED <<_nonce_lock, _last_nonce, nonces, fvars, rvars>>

(* "if now <= self._last_nonce: now = self._last_nonce + 1" *)
Bump(t) ==
    /\ npc[t] = "check"
    /\ now' = [now EXCEPT ![t] = IF now[t] <= _last_nonce
                                 THEN _last_nonce + 1 ELSE now[t]]
    /\ npc' = [npc EXCEPT ![t] = "store"]
    /\ UNCHANGED <<_nonce_lock, _last_nonce, nonces, fvars, rvars>>

(* "self._last_nonce = now" *)
Store(t) ==
    /\ npc[t] = "store"
    /\ _last_nonce' = now[t]
    /\ npc' = [npc EXCEPT ![t] = "return"]
    /\ UNCHANGED <<_nonce_lock, now, nonces, fvars, rvars>>

(* "return str(now)", which leaves the with block and releases the lock. *)
Return(t) ==
    /\ npc[t] = "return"
    /\ nonces' = Append(nonces, [thread |-> t, nonce |-> now[t]])
    /\ _nonce_lock' = IF _nonce_lock = t THEN 0 ELSE _nonce_lock
    /\ npc' = [npc EXCEPT ![t] = "idle"]
    /\ UNCHANGED <<_last_nonce, now, fvars, rvars>>

NextNonce ==
    \E t \in Threads :
        \/ Acquire(t)
        \/ ReadClock(t)
        \/ Bump(t)
        \/ Store(t)
        \/ Return(t)

SpecNonce == InitNonce /\ [][NextNonce]_vars

(* Claim C30: every nonce returned by _next_nonce on one                   *)
(* BitbankPrivateClient is strictly greater than every nonce it returned   *)
(* before, for any sequence of clock readings and any interleaving of the  *)
(* calling threads, so no two returned nonces are equal.                   *)
C30_NonceMonotonic ==
    \A i, j \in 1..Len(nonces) :
        i < j => nonces[i].nonce < nonces[j].nonce

(* Witness: two threads were served in turn and the second nonce is above  *)
(* every clock reading: the clock had stalled or gone back, and the nonce  *)
(* is the last one plus 1.                                                 *)
C30_Witness ==
    /\ Len(nonces) = MaxCalls
    /\ nonces[1].thread # nonces[2].thread
    /\ nonces[1].nonce = MaxClock
    /\ nonces[2].nonce = MaxClock + 1

-----------------------------------------------------------------------------
(* Specification Spec: one scheduled run, app/main.py:run(dry_run).        *)
(* The answers the ports may give.  The market of the run is scaled down:  *)
(* a budget of 10 JPY over prices of 10000 and 50000 JPY buys the same     *)
(* step counts as 10000 JPY over prices of 10^7 and 5 * 10^7.              *)
QuoteAnswers ==
    { <<Some(Depth(<<9990>>, <<10000>>)), None>>,    \* narrow spread
      <<Some(Depth(<<9000>>, <<10000>>)), None>>,    \* spread above the limit
      <<Some(Depth(<<49990>>, <<50000>>)), None>>,   \* narrow spread, high price
      <<None, Some(Ticker(None, None, None, None))>>, \* no depth, empty ticker
      <<None, None>> }                                \* depth and ticker both raise

CandleAnswers ==
    { <<Some(<<100, 100, 100>>), None>>,   \* calm
      <<Some(<<100, 103>>), None>>,        \* a 3% move
      <<None, None>> }                     \* candlestick raises

ChangeAnswers ==
    { Some(Ticker(None, None, Some(100), Some(100))),   \* flat
      Some(Ticker(None, None, Some(95), Some(100))),    \* -5% in 24h
      None }                                            \* ticker raises

BalanceAnswers == {None, Some(12), Some(20)}

(* prv.market_buy: it raises, or reports the order filled in full. *)
OrderAnswers(plan) ==
    {None, Some([avg_price |-> plan.quote.price + 1, executed_size |-> plan.qty])}

(* config.py: load_config with the default guard thresholds; the ratios    *)
(* 0.7 and 0.3 are carried as 7 and 3.  None when load_config raises.      *)
ConfigAnswers ==
    {None} \cup
    { Some([dca_total_jpy |-> 10, dca_ratio_btc |-> 7, dca_ratio_eth |-> 3,
            dca_dip_multiplier |-> m, guard_max_spread_pct |-> Rat(4, 1000),
            guard_max_vol5m_pct |-> Rat(2, 100), guard_dip_threshold |-> Rat(3, 100)])
        : m \in {Rat(1, 1), Rat(3, 2)} }

PAIRS == <<"btc_jpy", "eth_jpy">>

(* specs.py: the registry as built (both pairs), or after remove() of one  *)
(* pair; PairSpecRepository.get raises KeyError for a pair not in it.      *)
PairTables == {{"btc_jpy", "eth_jpy"}, {"btc_jpy"}, {"eth_jpy"}}

contains(table, pair) == pair \in table

_weights_from_config(c) == <<c.dca_ratio_btc, c.dca_ratio_eth>>

_guard_params_from_config(c) ==
    GuardParams(c.guard_max_spread_pct, c.guard_max_vol5m_pct, None, FALSE)

(* reporting.py: the text handed to the notifier, by what it is built from. *)
format_line_message(total_budget_jpy, dip_multiplier, rs, jpy_balance_after, extra_note) ==
    [total_budget_jpy |-> total_budget_jpy, dip_multiplier |-> dip_multiplier,
     reports |-> rs, jpy_balance_after |-> jpy_balance_after,
     extra_note |-> extra_note]

(* "free_jpy_before < sum(final_allocs.values())" *)
InsufficientBalance_never(free_jpy, amounts) == free_jpy < 0

InsufficientBalance_base(free_jpy, amounts) == free_jpy < cfg[1].dca_total_jpy

InsufficientBalance(free_jpy, amounts) == free_jpy < SumSeq(amounts)

(* The mutant drops the reason. *)
GuardSkipReport_noreason(pair, jpy_alloc, plan, reason) ==
    PairExecutionReport(pair, "SKIPPED", None, jpy_alloc, plan.quote.price,
                        None, Rat(0, 1))

(* The report of a pair rejected by the guard of run(). *)
GuardSkipReport(pair, jpy_alloc, plan, reason) ==
    PairExecutionReport(pair, "SKIPPED", Some(reason), jpy_alloc, plan.quote.price,
                        None, Rat(0, 1))

(* The report of a pair in a dry run.  The mutant shows the unrounded      *)
(* quantity.                                                               *)
DryRunReport_raw(pair, jpy_alloc, plan) ==
    PairExecutionReport(pair, "FILLED", None, jpy_alloc, plan.quote.price,
                        None, plan.raw_qty)

DryRunReport(pair, jpy_alloc, plan) ==
    PairExecutionReport(pair, "FILLED", None, jpy_alloc, plan.quote.price,
                        None, plan.qty)

Raise(call) ==
    /\ pc' = "aborted"
    /\ raised' = Some([call |-> call, at |-> pc, idx |-> idx])

(* The loop left after the pair in hand. *)
NextPair_break ==
    /\ idx' = idx + 1
    /\ pc' = "finish"

(* "for pair, jpy_alloc in final_allocs.items()": on to the next pair or out. *)
NextPair ==
    /\ idx' = idx + 1
    /\ pc' = IF idx < Len(final_allocs) THEN "plan" ELSE "finish"

Init ==
    /\ fpc = "idle" /\ arg = << >> /\ ret = << >>
    /\ pc = "start"
    /\ dry_run \in BOOLEAN
    /\ dca_live \in {"unset", "0", "1"}
    /\ pair_table \in PairTables
    /\ cfg = None
    /\ base_allocs = << >> /\ quotes = << >> /\ vol5m_map = << >>
    /\ chg24h_map = << >> /\ dip_flag_map = << >> /\ final_allocs = << >>
    /\ free_jpy_before = None
    /\ idx = 0
    /\ plans = << >> /\ reports = << >> /\ execs = << >>
    /\ notified = << >>
    /\ raised = None
    /\ NonceIdle

(* main.py 60-76: load the configuration, allocate the base amounts. *)
LoadAndAllocate ==
    /\ pc = "start"
    /\ \E c \in ConfigAnswers :
        IF c = None
        THEN /\ Raise("load_config")
             /\ UNCHANGED <<cfg, base_allocs, idx>>
        ELSE /\ cfg' = c
             /\ base_allocs' = allocate_amounts(_weights_from_config(c[1]),
                                                c[1].dca_total_jpy)
             /\ idx' = 1
             /\ pc' = "snapshot"
             /\ UNCHANGED raised
    /\ UNCHANGED <<fvars, nvars, dry_run, dca_live, pair_table, quotes, vol5m_map, chg24h_map,
                   dip_flag_map, final_allocs, free_jpy_before, plans, reports, execs,
                   notified>>

(* main.py 82-85: one turn of the snapshot loop, for PAIRS[idx]. *)
Snapshot ==
    /\ pc = "snapshot"
    /\ \E qa \in QuoteAnswers, ca \in CandleAnswers, ta \in ChangeAnswers :
        LET q == get_quote(qa[1], qa[2])
            v == vol5m_pct(ca[1], ca[2])
            c == change24h_pct(ta)
        IN  IF q = None
            THEN Raise("get_quote") /\ UNCHANGED <<quotes, vol5m_map, chg24h_map, idx>>
            ELSE IF v = None
            THEN /\ Raise("vol5m_pct")
                 /\ quotes' = Append(quotes, q[1])
                 /\ UNCHANGED <<vol5m_map, chg24h_map, idx>>
            ELSE IF c = None
            THEN /\ Raise("change24h_pct")
                 /\ quotes' = Append(quotes, q[1])
                 /\ vol5m_map' = Append(vol5m_map, v[1])
                 /\ UNCHANGED <<chg24h_map, idx>>
            ELSE /\ quotes' = Append(quotes, q[1])
                 /\ vol5m_map' = Append(vol5m_map, v[1])
                 /\ chg24h_map' = Append(chg24h_map, c[1])
                 /\ idx' = idx + 1
                 /\ pc' = IF idx < Len(PAIRS) THEN "snapshot" ELSE "dip"
                 /\ UNCHANGED raised
    /\ UNCHANGED <<fvars, nvars, dry_run, dca_live, pair_table, cfg, base_allocs, dip_flag_map, final_allocs,
                   free_jpy_before, plans, reports, execs, notified>>

(* main.py 88-97: dip flags and the dip-adjusted allocation. *)
ApplyDip ==
    /\ pc = "dip"
    /\ dip_flag_map' = make_dip_flags(chg24h_map, cfg[1].guard_dip_threshold)
    /\ final_allocs' = apply_dip_multiplier(
                    dip_flag_map', base_allocs, cfg[1].dca_total_jpy,
                    cfg[1].dca_dip_multiplier,
                    IntMulDiv(cfg[1].dca_total_jpy, cfg[1].dca_dip_multiplier.n,
                              cfg[1].dca_dip_multiplier.d))
    /\ pc' = "balance"
    /\ UNCHANGED <<fvars, nvars, dry_run, dca_live, pair_table, cfg, base_allocs, quotes, vol5m_map,
                   chg24h_map, free_jpy_before, idx, plans, reports, execs,
                   notified, raised>>

(* main.py 99-122: read the free balance; when it does not cover the       *)
(* allocation, notify with an empty report list and return.                *)
BalanceCheck ==
    /\ pc = "balance"
    /\ \E b \in BalanceAnswers, delivered \in BOOLEAN :
        IF b = None
        THEN /\ Raise("get_free_jpy")
             /\ UNCHANGED <<free_jpy_before, notified, idx>>
        ELSE /\ free_jpy_before' = b
             /\ IF InsufficientBalance(b[1], final_allocs)
                THEN /\ notified' = Append(notified,
                            format_line_message(cfg[1].dca_total_jpy,
                                                cfg[1].dca_dip_multiplier, << >>,
                                                b[1], "insufficient_balance"))
                     /\ IF delivered
                        THEN pc' = "done" /\ UNCHANGED raised
                        ELSE Raise("notify")
                     /\ UNCHANGED idx
                ELSE /\ idx' = 1
                     /\ pc' = "plan"
                     /\ UNCHANGED <<notified, raised>>
    /\ UNCHANGED <<fvars, nvars, dry_run, dca_live, pair_table, cfg, base_allocs, quotes, vol5m_map,
                   chg24h_map, dip_flag_map, final_allocs, plans, reports, execs>>

(* main.py 124-127: get_pair_spec and build_plan_for_pair for pair idx. *)
PlanPair ==
    /\ pc = "plan"
    /\ \E qa \in QuoteAnswers :
        LET plan == build_plan_for_pair(qa[1], qa[2], get_pair_spec(PAIRS[idx]),
                                        PAIRS[idx], final_allocs[idx])
        IN  IF ~contains(pair_table, PAIRS[idx])
            THEN Raise("get_pair_spec") /\ UNCHANGED plans
            ELSE IF plan = None
            THEN Raise("get_quote") /\ UNCHANGED plans
            ELSE /\ plans' = Append(plans, plan[1])
                 /\ pc' = "guard"
                 /\ UNCHANGED raised
    /\ UNCHANGED <<fvars, nvars, dry_run, dca_live, pair_table, cfg, base_allocs, quotes, vol5m_map,
                   chg24h_map, dip_flag_map, final_allocs, free_jpy_before, idx, reports,
                   execs, notified>>

(* main.py 130-160: the guard on the snapshot quote, then the dry-run      *)
(* report or the way on to execute_plan_for_pair.                          *)
GuardPair ==
    /\ pc = "guard"
    /\ LET guard == evaluate_pair_guard(quotes[idx], vol5m_map[idx],
                                        _guard_params_from_config(cfg[1]))
       IN  IF ~guard.ok
           THEN /\ reports' = Append(reports,
                        GuardSkipReport(PAIRS[idx], final_allocs[idx], plans[idx], guard.reason))
                /\ NextPair
           ELSE IF dry_run
           THEN /\ reports' = Append(reports,
                        DryRunReport(PAIRS[idx], final_allocs[idx], plans[idx]))
                /\ NextPair
           ELSE /\ pc' = "execute"
                /\ UNCHANGED <<reports, idx>>
    /\ UNCHANGED <<fvars, nvars, dry_run, dca_live, pair_table, cfg, base_allocs, quotes, vol5m_map,
                   chg24h_map, dip_flag_map, final_allocs, free_jpy_before, plans, execs,
                   notified, raised>>

(* main.py 161-163: execute_plan_for_pair and the append of its report. *)
ExecutePair ==
    /\ pc = "execute"
    /\ \E ca \in CandleAnswers, order_res \in OrderAnswers(plans[idx]) :
        LET eff == execute_plan_for_pair(plans[idx], _guard_params_from_config(cfg[1]),
                                         dca_live, ca[1], ca[2], order_res)
        IN  /\ execs' = Append(execs, [idx |-> idx, eff |-> eff])
            /\ IF eff.raises # None
               THEN Raise(eff.raises[1]) /\ UNCHANGED <<reports, idx>>
               ELSE /\ reports' = Append(reports, eff.report[1])
                    /\ NextPair
                    /\ UNCHANGED raised
    /\ UNCHANGED <<fvars, nvars, dry_run, dca_live, pair_table, cfg, base_allocs, quotes, vol5m_map,
                   chg24h_map, dip_flag_map, final_allocs, free_jpy_before, plans, notified>>

(* main.py 165-181: the balance after the loop and the notification. *)
Finish ==
    /\ pc = "finish"
    /\ \E b \in BalanceAnswers, delivered \in BOOLEAN :
        IF b = None
        THEN Raise("get_free_jpy") /\ UNCHANGED notified
        ELSE /\ notified' = Append(notified,
                    format_line_message(cfg[1].dca_total_jpy, cfg[1].dca_dip_multiplier,
                                        reports, b[1],
                                        IF dry_run THEN "dry_run" ELSE "none"))
             /\ IF delivered
                THEN pc' = "done" /\ UNCHANGED raised
                ELSE Raise("notify")
    /\ UNCHANGED <<fvars, nvars, dry_run, dca_live, pair_table, cfg, base_allocs, quotes, vol5m_map,
                   chg24h_map, dip_flag_map, final_allocs, free_jpy_before, idx, plans,
                   reports, execs>>

Next ==
    \/ LoadAndAllocate
    \/ Snapshot
    \/ ApplyDip
    \/ BalanceCheck
    \/ PlanPair
    \/ GuardPair
    \/ ExecutePair
    \/ Finish

Spec == Init /\ [][Next]_vars

-----------------------------------------------------------------------------
(* Claim C3: whenever the free JPY balance read before the loop is below   *)
(* the sum of the final allocations, no pair is planned, no guard of the   *)
(* loop is evaluated, nothing is executed or bought, and the one message   *)
(* handed to the notifier carries no pair report and the                   *)
(* insufficient-balance note.                                              *)
C3_BalancePrecheck ==
    (free_jpy_before # None /\ free_jpy_before[1] < SumSeq(final_allocs)) =>
        /\ pc \in {"done", "aborted"}
        /\ (raised = None \/ raised[1].call = "notify")
        /\ plans = << >> /\ reports = << >> /\ execs = << >>
        /\ Len(notified) = 1
        /\ notified[1].reports = << >>
        /\ notified[1].extra_note = "insufficient_balance"
        /\ notified[1].jpy_balance_after = free_jpy_before[1]

(* A run that ended on a balance of 12 JPY against a dip-raised allocation. *)
C3_Witness ==
    /\ pc = "done"
    /\ free_jpy_before # None
    /\ free_jpy_before[1] < SumSeq(final_allocs)
    /\ free_jpy_before[1] >= SumSeq(base_allocs)
    /\ Len(notified) = 1

-----------------------------------------------------------------------------
(* Claim C4: while DCA_LIVE is not one of 1/true/on/yes (unset included),  *)
(* execute_plan_for_pair never calls market_buy, and every call of it on a *)
(* plan whose quantity is tradeable and whose guard (plan quote, fresh     *)
(* volatility sample) allows yields the report SKIPPED / LIVE_DISABLED.    *)
C4_LiveGate ==
    dca_live \notin {"1", "true", "on", "yes"} =>
        \A j \in 1..Len(execs) :
            LET e == execs[j]
                plan == plans[e.idx]
            IN  /\ e.eff.order = None
                /\ ( /\ ~BelowMinSize(plan, get_pair_spec(plan.pair))
                     /\ e.eff.vol # None
                     /\ evaluate_pair_guard(plan.quote, e.eff.vol[1],
                                            _guard_params_from_config(cfg[1])).ok )
                   => /\ Len(reports) >= e.idx
                      /\ reports[e.idx].status = "SKIPPED"
                      /\ reports[e.idx].reason = Some("LIVE_DISABLED")
                      /\ reports[e.idx].executed_qty = Rat(0, 1)

(* DCA_LIVE unset, a tradeable plan, the guard passed, the gate reported. *)
C4_Witness ==
    /\ dca_live = "unset"
    /\ \E j \in 1..Len(execs) :
        /\ ~BelowMinSize(plans[execs[j].idx], get_pair_spec(PAIRS[execs[j].idx]))
        /\ execs[j].eff.vol # None
        /\ Len(reports) >= execs[j].idx
        /\ reports[execs[j].idx].reason = Some("LIVE_DISABLED")

-----------------------------------------------------------------------------
(* Claim C5: in a dry run execute_plan_for_pair is never called, so no     *)
(* market buy is sent, and every pair that passes the guard of run() is    *)
(* reported FILLED with no reason, no average price and the planned        *)
(* (rounded) quantity as executed quantity.                                *)
C5_DryRunNeverTrades ==
    dry_run =>
        /\ execs = << >>
        /\ \A j \in 1..Len(reports) :
            evaluate_pair_guard(quotes[j], vol5m_map[j],
                                _guard_params_from_config(cfg[1])).ok
            => /\ reports[j].status = "FILLED"
               /\ reports[j].reason = None
               /\ reports[j].avg_price = None
               /\ reports[j].executed_qty = plans[j].qty
               /\ reports[j].jpy_planned = final_allocs[j]

(* A finished dry run with a FILLED-shaped report of a positive quantity   *)
(* that the rounding brought below the raw quantity.                       *)
C5_Witness ==
    /\ dry_run
    /\ pc = "done"
    /\ \E j \in 1..Len(reports) :
        /\ reports[j].status = "FILLED"
        /\ RatGT(reports[j].executed_qty, Rat(0, 1))
        /\ RatLT(plans[j].qty, plans[j].raw_qty)

-----------------------------------------------------------------------------
(* Claim C6 (as stated): every pair whose planned quantity is zero or      *)
(* below the pair's minimum size is reported SKIPPED with reason MIN_SIZE, *)
(* whatever the guards say.                                                *)
C6_MinSizeSkip ==
    \A j \in 1..Len(reports) :
        BelowMinSize(plans[j], get_pair_spec(PAIRS[j]))
        => /\ reports[j].status = "SKIPPED"
           /\ reports[j].reason = Some("MIN_SIZE")

-----------------------------------------------------------------------------
(* Claim C8 (as stated): when market_buy raises for a pair, the exception  *)
(* does not end the run and the pair is reported with status ERROR.        *)
C8_BuyFailureContained ==
    (raised # None /\ raised[1].call = "market_buy") =>
        /\ pc # "aborted"
        /\ Len(reports) >= raised[1].idx
        /\ reports[raised[1].idx].status = "ERROR"

-----------------------------------------------------------------------------
(* Claim C9 (as stated): when get_quote raises while a pair is planned,    *)
(* the exception does not end the run and the pair is reported with status *)
(* ERROR.                                                                  *)
C9_QuoteFailureContained ==
    (raised # None /\ raised[1].call = "get_quote" /\ raised[1].at = "plan") =>
        /\ pc # "aborted"
        /\ Len(reports) >= raised[1].idx
        /\ reports[raised[1].idx].status = "ERROR"

-----------------------------------------------------------------------------
(* Claim C10 (as stated): every run that has ended, by return or by a      *)
(* fatal error, has handed exactly one report to the notifier.             *)
C10_ReportAlwaysProduced ==
    pc \in {"done", "aborted"} => Len(notified) = 1

-----------------------------------------------------------------------------
-----------------------------------------------------------------------------
(* Claim C12 (as stated): in a run whose precheck finds the free balance   *)
(* below the sum of the allocations, the report handed to the notifier     *)
(* holds, for every configured pair, an outcome SKIPPED / INSUFF_JPY.      *)
C12_InsufficientPerPair ==
    (free_jpy_before # None /\ InsufficientBalance(free_jpy_before[1], final_allocs)) =>
        /\ Len(notified) >= 1
        /\ Len(notified[1].reports) = Len(PAIRS)
        /\ \A i \in 1..Len(PAIRS) :
            /\ notified[1].reports[i].pair = PAIRS[i]
            /\ notified[1].reports[i].status = "SKIPPED"
            /\ notified[1].reports[i].reason = Some("INSUFF_JPY")

-----------------------------------------------------------------------------
(* Claim C13.  The calls of get_quote made so far: one per snapshot entry, *)
(* one per plan, and the one that raised.  The calls of                    *)
(* evaluate_pair_guard made so far: one per pair that passed the guard     *)
(* step of run(), one per execute_plan_for_pair call that took a           *)
(* volatility sample.                                                      *)
QuoteCalls ==
    Len(quotes) + Len(plans)
      + (IF raised # None /\ raised[1].call = "get_quote" THEN 1 ELSE 0)

GuardEvals ==
    Len(reports)
      + (IF pc = "execute" \/ (raised # None /\ raised[1].at = "execute") THEN 1 ELSE 0)
      + Len(SelectSeq(execs, LAMBDA e : e.eff.vol # None))

(* Claim C13 (as stated): in a run whose precheck finds the free balance   *)
(* below the sum of the allocations, get_quote is never called and no      *)
(* guard is evaluated.                                                     *)
C13_AsStated ==
    (free_jpy_before # None /\ free_jpy_before[1] < SumSeq(final_allocs)) =>
        QuoteCalls = 0 /\ GuardEvals = 0

(* Claim C13 (amended): in such a run get_quote has been called exactly    *)
(* once per pair, by the market snapshot that precedes the precheck, and   *)
(* is not called again; no plan is built and no guard is ever evaluated.   *)
C13_NoQuoteWorkAfterPrecheck ==
    (free_jpy_before # None /\ free_jpy_before[1] < SumSeq(final_allocs)) =>
        /\ QuoteCalls = Len(PAIRS)
        /\ Len(quotes) = Len(PAIRS)
        /\ plans = << >>
        /\ GuardEvals = 0
        /\ pc \in {"done", "aborted"}

(* An ended run with insufficient balance whose snapshot held a quote that *)
(* a guard would have rejected.                                            *)
C13_Witness ==
    /\ pc = "done"
    /\ free_jpy_before # None
    /\ free_jpy_before[1] < SumSeq(final_allocs)
    /\ Len(quotes) = Len(PAIRS)
    /\ \E i \in 1..Len(quotes) :
        ~evaluate_pair_guard(quotes[i], vol5m_map[i],
                             _guard_params_from_config(cfg[1])).ok

-----------------------------------------------------------------------------
(* Claim C22: in any run and for any pair, prv.market_buy is invoked at    *)
(* most once, only after the balance precheck has passed, only after that  *)
(* pair's guard evaluations (the one of run() and the one of               *)
(* execute_plan_for_pair) have allowed, and only with a quantity that is   *)
(* > 0, >= the pair's minimum size and equal to the plan's rounded         *)
(* quantity.                                                               *)
C22_OrderSafety ==
    \A i \in 1..Len(execs) :
        execs[i].eff.order # None =>
            LET k == execs[i].idx
                order == execs[i].eff.order[1]
                params == _guard_params_from_config(cfg[1])
            IN  /\ free_jpy_before # None
                /\ free_jpy_before[1] >= SumSeq(final_allocs)
                /\ k \in 1..Len(plans)
                /\ order.pair = PAIRS[k]
                /\ order.size = plans[k].qty
                /\ RatGT(order.size, Rat(0, 1))
                /\ RatLE(get_pair_spec(PAIRS[k]).min_size, order.size)
                /\ evaluate_pair_guard(quotes[k], vol5m_map[k], params).ok
                /\ execs[i].eff.vol # None
                /\ evaluate_pair_guard(plans[k].quote, execs[i].eff.vol[1], params).ok
                /\ \A j \in 1..Len(execs) : j # i => execs[j].idx # k

(* A run that bought both pairs. *)
C22_Witness ==
    /\ pc = "done"
    /\ Len(execs) = 2
    /\ execs[1].eff.order # None
    /\ execs[2].eff.order # None

-----------------------------------------------------------------------------
(* Claim C23 (as stated): every guard decision that determines a pair's    *)
(* outcome (a SKIPPED with a guard reason, or the permission that leads to *)
(* the live gate or to the dry-run FILLED outcome) is computed from the    *)
(* quote stored in that pair's order plan and from a volatility reading    *)
(* sampled at guard time for that pair, not from the earlier snapshot.     *)
GuardReasons == {"KILL", "DATA", "SPREAD", "VOL"}

C23_GuardInputs ==
    \A k \in 1..Len(reports) :
        reports[k].reason # Some("MIN_SIZE") =>
            \E i \in 1..Len(execs) :
                /\ execs[i].idx = k
                /\ execs[i].eff.vol # None
                /\ LET g == evaluate_pair_guard(plans[k].quote, execs[i].eff.vol[1],
                                                _guard_params_from_config(cfg[1]))
                   IN  IF reports[k].status = "SKIPPED"
                            /\ reports[k].reason[1] \in GuardReasons
                       THEN ~g.ok /\ g.reason = reports[k].reason[1]
                       ELSE g.ok

-----------------------------------------------------------------------------
(* Claim C24: in a run whose precheck passes and in which no fatal error   *)
(* occurs, exactly one order plan is built and exactly one outcome is      *)
(* recorded for each allocated pair, the outcomes are in the report in the *)
(* pairs' configured iteration order, and pair k's outcome is recorded     *)
(* before pair k+1's plan is built.                                        *)
PrecheckPassed ==
    /\ free_jpy_before # None
    /\ free_jpy_before[1] >= SumSeq(final_allocs)

C24_SequentialOncePerPair ==
    /\ Len(reports) <= Len(plans)
    /\ Len(plans) <= Len(reports) + 1
    /\ \A k \in 1..Len(plans) :
            plans[k].pair = PAIRS[k] /\ plans[k].jpy_alloc = final_allocs[k]
    /\ \A k \in 1..Len(reports) :
            reports[k].pair = PAIRS[k] /\ reports[k].jpy_planned = final_allocs[k]
    /\ pc = "plan" => Len(plans) = idx - 1 /\ Len(reports) = idx - 1
    /\ (pc = "done" /\ PrecheckPassed) =>
            /\ Len(final_allocs) = Len(PAIRS)
            /\ Len(plans) = Len(PAIRS)
            /\ Len(reports) = Len(PAIRS)
            /\ Len(notified) = 1
            /\ notified[1].reports = reports

(* A completed run that skipped the first pair and filled the second. *)
C24_Witness ==
    /\ pc = "done"
    /\ PrecheckPassed
    /\ Len(reports) = 2
    /\ reports[1].status = "SKIPPED"
    /\ reports[2].status = "FILLED"

-----------------------------------------------------------------------------
(* Claim C29: every per-pair outcome recorded in a run has status FILLED,  *)
(* SKIPPED or ERROR; every SKIPPED outcome has a non-empty reason,         *)
(* executed quantity 0 and no average price; every FILLED outcome has no   *)
(* reason; and an outcome carries an average fill price only if            *)
(* prv.market_buy was invoked for that pair.                               *)
SkipReasons == GuardReasons \cup {"MIN_SIZE", "LIVE_DISABLED"}

C29_OutcomeWellFormed ==
    \A k \in 1..Len(reports) :
        LET r == reports[k]
        IN  /\ r.status \in {"FILLED", "SKIPPED", "ERROR"}
            /\ r.status = "SKIPPED" =>
                  /\ r.reason # None
                  /\ r.reason[1] \in SkipReasons
                  /\ r.executed_qty = Rat(0, 1)
                  /\ r.avg_price = None
            /\ r.status = "FILLED" => r.reason = None
            /\ r.avg_price # None =>
                  \E i \in 1..Len(execs) :
                      /\ execs[i].idx = k
                      /\ execs[i].eff.order # None
                      /\ execs[i].eff.order[1].pair = r.pair

(* A completed run whose first outcome is a fill with its average price    *)
(* and whose second is a skip.                                             *)
C29_Witness ==
    /\ pc = "done"
    /\ Len(reports) = 2
    /\ reports[1].status = "FILLED"
    /\ reports[1].avg_price # None
    /\ reports[2].status = "SKIPPED"

====
